---- MODULE Spec2Model ----
(***************************************************************************)
(* HybridCache (src/src/usms/api/services/cache.py): a two-tier cache, an  *)
(* insertion-ordered in-memory dict (L1) with a parallel expiry dict, in   *)
(* front of a disk store (L2, diskcache.Cache) that keeps its own expiry.  *)
(*                                                                         *)
(* Python values are modelled as follows.                                  *)
(*   - a str key is the sequence of its characters, so that truthiness     *)
(*     ("" is falsy), rstrip("*") and startswith are computed, not assumed *)
(*   - an Optional[number] is <<>> (None) or <<n>>                         *)
(*   - a dict is a sequence of [k, v] pairs in insertion order (l1) or a   *)
(*     function on the set of its keys (l1_ttl, l2, whose order is unused) *)
(*   - datetime.now().timestamp() / time.time() is the integer clock now   *)
(* The disk store is the diskcache package: get filters on                 *)
(* expire_time > now, set/cull delete rows with expire_time < now, and any *)
(* call may raise (I/O error, timeout).  The stored volume is assumed to   *)
(* stay under disk_size_limit (1 GiB), so no live row is culled for size.  *)
(***************************************************************************)
EXTENDS Integers, Sequences, FiniteSets, TLC

\* ---------------------------------------------------------------- bounds
MaxCapacity == 2     \* memory_size is drawn from 1..MaxCapacity
MaxTime == 4         \* the clock runs 0..MaxTime
MaxCalls == 3        \* cache calls per run
MaxFaults == 1       \* L2 calls that raise per run
NThreads == 2        \* callers that run at the same time
MaxLongCalls == 6    \* cache calls per run of the longer, narrower runs

\* ---------------------------------------------------------------- inputs
\* Python's None; every set call carries either None or a payload of its own,
\* named after the call's number, so that a value read back names its write.
None == "None"
Payload(n) == ToString(n)

K0 == <<>>
Ka == <<"a">>
Kab == <<"a", "b">>
Keys == {K0, Ka, Kab}

Patterns == {<<>>, <<"*">>, <<"a", "*">>, <<"a", "b", "*">>, <<"*", "*">>}

\* (ttl_memory, ttl_disk) pairs a caller passes: none, or a short memory
\* window inside a longer disk window.
NoTTL == <<>>
TTLs == {<<NoTTL, NoTTL>>, <<<<1>>, <<3>>>>}

\* (ttl_memory, ttl_disk) pairs a caller must not pass: a negative one.
BadTTLs == {<<<<-1>>, NoTTL>>, <<NoTTL, <<-1>>>>}

\* The keys of the longer runs.
LongKeys == {K0, Ka}

VARIABLES
    l1,           \* self.l1: insertion-ordered dict, a sequence of [k, v]
    l1_ttl,       \* self.l1_ttl: key -> Optional expiry instant
    l1_max_size,  \* self.l1_max_size
    l2,           \* self.l2: key -> [v, exp], the rows of the disk store
    stats,        \* self.stats
    now,          \* the wall clock
    faults,       \* how many L2 calls have raised so far
    calls,        \* how many cache calls have been made so far
    last,         \* the last call: its arguments, result and exception
    hist,         \* per key, the most recent set and what touched the key since
    th            \* per concurrent caller, where it is inside its call

vars == <<l1, l1_ttl, l1_max_size, l2, stats, now, faults, calls, last, hist, th>>

\* ------------------------------------------------------------ dict helpers
DictKeys(d) == {d[i].k : i \in 1..Len(d)}
DictHas(d, key) == \E i \in 1..Len(d) : d[i].k = key
DictGet(d, key) == (CHOOSE i \in 1..Len(d) : d[i].k = key)
DictVal(d, key) == d[DictGet(d, key)].v
DictDel(d, key) == SelectSeq(d, LAMBDA e : e.k # key)
DictPut(d, key, value) ==
    IF DictHas(d, key)
    THEN [i \in 1..Len(d) |-> IF d[i].k = key THEN [k |-> key, v |-> value] ELSE d[i]]
    ELSE Append(d, [k |-> key, v |-> value])
MapDel(m, key) == [x \in (DOMAIN m) \ {key} |-> m[x]]
MapPut(m, key, value) == [x \in (DOMAIN m) \cup {key} |-> IF x = key THEN value ELSE m[x]]
EmptyMap == [x \in {} |-> 0]

\* ------------------------------------------------------------- str helpers
RECURSIVE rstrip(_)
rstrip(s) ==
    IF s # <<>> /\ s[Len(s)] = "*" THEN rstrip(SubSeq(s, 1, Len(s) - 1)) ELSE s

startswith(s, prefix) ==
    Len(prefix) <= Len(s) /\ SubSeq(s, 1, Len(prefix)) = prefix

Truthy(s) == s # <<>>

\* ------------------------------------------------------- the disk store
L2Live(row, t) == row.exp = <<>> \/ row.exp[1] > t

\* Faulty variant of L2Get: a row is returned whether or not it has expired.
L2Get_ignores_expiry(store, key, t) ==
    IF key \in DOMAIN store THEN store[key].v ELSE None

L2Get(store, key, t) ==
    IF key \in DOMAIN store /\ L2Live(store[key], t) THEN store[key].v ELSE None

L2Cull(store, t) ==
    LET keep == {x \in DOMAIN store : store[x].exp = <<>> \/ ~(store[x].exp[1] < t)}
    IN [x \in keep |-> store[x]]

L2Set(store, key, value, expire, t) ==
    LET row == [v |-> value, exp |-> IF expire = <<>> THEN <<>> ELSE <<t + expire[1]>>]
    IN L2Cull(MapPut(store, key, row), t)

L2Delete(store, key) == MapDel(store, key)

\* ------------------------------------------------------------ HybridCache
\* A cache state c is [l1, l1_ttl, stats, exc]; exc names the exception that
\* escaped, "" when none did.
Cache(d, ttl, st) == [l1 |-> d, l1_ttl |-> ttl, stats |-> st, exc |-> ""]

\* Faulty variant of _is_expired: an entry expires at its expiry instant, not
\* after it.
_is_expired_at_expiry(ttl, key, t) ==
    IF key \notin DOMAIN ttl THEN TRUE
    ELSE IF ttl[key] = <<>> THEN FALSE
    ELSE t >= ttl[key][1]

\* Faulty variant of _is_expired: the clock is never compared.
_is_expired_no_clock(ttl, key, t) ==
    IF key \notin DOMAIN ttl THEN TRUE ELSE FALSE

\* _is_expired (cache.py 75-95).
_is_expired(ttl, key, t) ==
    IF key \notin DOMAIN ttl THEN TRUE
    ELSE IF ttl[key] = <<>> THEN FALSE
    ELSE t > ttl[key][1]

ExpiredKeys(c, t) == SelectSeq(c.l1, LAMBDA e : _is_expired(c.l1_ttl, e.k, t))

RECURSIVE SweepLoop(_, _)
SweepLoop(c, ks) ==
    IF ks = <<>> \/ c.exc # "" THEN c
    ELSE LET key == Head(ks).k IN
         IF ~DictHas(c.l1, key) THEN [c EXCEPT !.exc = "KeyError"]
         ELSE IF key \notin DOMAIN c.l1_ttl
              THEN [c EXCEPT !.l1 = DictDel(@, key), !.exc = "KeyError"]
              ELSE SweepLoop([c EXCEPT !.l1 = DictDel(@, key),
                                       !.l1_ttl = MapDel(@, key),
                                       !.stats.evictions = @ + 1], Tail(ks))

\* Faulty variant of _evict_expired: nothing is swept.
_evict_expired_skipped(c, t) == c

\* _evict_expired (cache.py 97-103).
_evict_expired(c, t) == SweepLoop(c, ExpiredKeys(c, t))

\* Faulty variant of _evict_lru: evicts only once L1 is over capacity.
_evict_lru_late(c, cap) ==
    IF Len(c.l1) > cap
    THEN LET oldest_key == c.l1[1].k IN
         [c EXCEPT !.l1 = DictDel(@, oldest_key),
                   !.l1_ttl = IF oldest_key \in DOMAIN @ THEN MapDel(@, oldest_key) ELSE @,
                   !.stats.evictions = @ + 1]
    ELSE c

\* _evict_lru (cache.py 105-113).
_evict_lru(c, cap) ==
    IF Len(c.l1) >= cap
    THEN IF c.l1 = <<>> THEN [c EXCEPT !.exc = "StopIteration"]
         ELSE LET oldest_key == c.l1[1].k IN
              [c EXCEPT !.l1 = DictDel(@, oldest_key),
                        !.l1_ttl = IF oldest_key \in DOMAIN @ THEN MapDel(@, oldest_key) ELSE @,
                        !.stats.evictions = @ + 1]
    ELSE c

\* The L1 lookup of get (cache.py 132).
L1Hit(c, key, t) == DictHas(c.l1, key) /\ ~_is_expired(c.l1_ttl, key, t)

\* Faulty variant of Promote: the promoted entry is given an expiry, the
\* instant 0.
Promote_expiring(c, key, value) ==
    [c EXCEPT !.l1 = DictPut(@, key, value), !.l1_ttl = MapPut(@, key, <<0>>)]

\* The promotion of an L2 hit into L1 (cache.py 144-146).
Promote(c, key, value) ==
    [c EXCEPT !.l1 = DictPut(@, key, value), !.l1_ttl = MapPut(@, key, <<>>)]

\* Faulty variant of get: an L1 hit moves the key to the end of the dict, as
\* an access-ordered LRU would.
get_op_moves_to_end(c0, store, key, t, fault) ==
    LET c == _evict_expired(c0, t) IN
    IF c.exc # ""
    THEN [c |-> c, l2 |-> store, ret |-> None, outcome |-> "raise", count |-> 0]
    ELSE IF L1Hit(c, key, t)
    THEN [c |-> [c EXCEPT !.stats.l1_hits = @ + 1,
                          !.l1 = Append(DictDel(@, key), [k |-> key, v |-> DictVal(c.l1, key)])],
          l2 |-> store, ret |-> DictVal(c.l1, key), outcome |-> "l1_hit", count |-> 0]
    ELSE LET value == IF fault THEN None ELSE L2Get(store, key, t) IN
         IF value # None
         THEN [c |-> Promote([c EXCEPT !.stats.l2_hits = @ + 1], key, value),
               l2 |-> store, ret |-> value, outcome |-> "l2_hit", count |-> 0]
         ELSE [c |-> [c EXCEPT !.stats.misses = @ + 1], l2 |-> store,
               ret |-> None, outcome |-> "miss", count |-> 0]

\* Faulty variant of get: an L2 hit is counted in l1_hits as well, for the
\* promoted entry.
get_op_counts_promotion(c0, store, key, t, fault) ==
    LET c == _evict_expired(c0, t) IN
    IF c.exc # ""
    THEN [c |-> c, l2 |-> store, ret |-> None, outcome |-> "raise", count |-> 0]
    ELSE IF L1Hit(c, key, t)
    THEN [c |-> [c EXCEPT !.stats.l1_hits = @ + 1], l2 |-> store,
          ret |-> DictVal(c.l1, key), outcome |-> "l1_hit", count |-> 0]
    ELSE LET value == IF fault THEN None ELSE L2Get(store, key, t) IN
         IF value # None
         THEN [c |-> Promote([c EXCEPT !.stats.l2_hits = @ + 1, !.stats.l1_hits = @ + 1],
                             key, value),
               l2 |-> store, ret |-> value, outcome |-> "l2_hit", count |-> 0]
         ELSE [c |-> [c EXCEPT !.stats.misses = @ + 1], l2 |-> store,
               ret |-> None, outcome |-> "miss", count |-> 0]

\* Faulty variant of get: the exception of self.l2.get is not caught.
get_op_fault_escapes(c0, store, key, t, fault) ==
    LET c == _evict_expired(c0, t) IN
    IF c.exc # ""
    THEN [c |-> c, l2 |-> store, ret |-> None, outcome |-> "raise", count |-> 0]
    ELSE IF L1Hit(c, key, t)
    THEN [c |-> [c EXCEPT !.stats.l1_hits = @ + 1], l2 |-> store,
          ret |-> DictVal(c.l1, key), outcome |-> "l1_hit", count |-> 0]
    ELSE IF fault
    THEN [c |-> [c EXCEPT !.exc = "L2Error"], l2 |-> store,
          ret |-> None, outcome |-> "raise", count |-> 0]
    ELSE LET value == L2Get(store, key, t) IN
         IF value # None
         THEN [c |-> Promote([c EXCEPT !.stats.l2_hits = @ + 1], key, value),
               l2 |-> store, ret |-> value, outcome |-> "l2_hit", count |-> 0]
         ELSE [c |-> [c EXCEPT !.stats.misses = @ + 1], l2 |-> store,
               ret |-> None, outcome |-> "miss", count |-> 0]

\* get (cache.py 115-154).  fault: self.l2.get raises.
get_op(c0, store, key, t, fault) ==
    LET c == _evict_expired(c0, t) IN
    IF c.exc # ""
    THEN [c |-> c, l2 |-> store, ret |-> None, outcome |-> "raise", count |-> 0]
    ELSE IF L1Hit(c, key, t)
    THEN [c |-> [c EXCEPT !.stats.l1_hits = @ + 1], l2 |-> store,
          ret |-> DictVal(c.l1, key), outcome |-> "l1_hit", count |-> 0]
    ELSE LET value == IF fault THEN None ELSE L2Get(store, key, t) IN
         IF value # None
         THEN [c |-> Promote([c EXCEPT !.stats.l2_hits = @ + 1], key, value),
               l2 |-> store, ret |-> value, outcome |-> "l2_hit", count |-> 0]
         ELSE [c |-> [c EXCEPT !.stats.misses = @ + 1], l2 |-> store,
               ret |-> None, outcome |-> "miss", count |-> 0]

\* Faulty variant of L1Expiry: the TTL is stored without the clock added.
L1ExpiryNoClock(ttl_memory, t) ==
    IF ttl_memory # <<>> THEN <<ttl_memory[1]>> ELSE <<>>

\* The expiry set stamps on an L1 entry (cache.py 178-181).
L1Expiry(ttl_memory, t) ==
    IF ttl_memory # <<>> THEN <<t + ttl_memory[1]>> ELSE <<>>

\* Faulty variant of set: nothing is evicted when the key is already in L1.
set_op_keeps_on_overwrite(c0, store, cap, key, value, ttl_memory, ttl_disk, t, fault) ==
    LET c1 == [c0 EXCEPT !.stats.sets = @ + 1]
        c2 == IF DictHas(c1.l1, key) THEN c1 ELSE _evict_lru(c1, cap)
        c3 == [c2 EXCEPT !.l1 = DictPut(@, key, value),
                         !.l1_ttl = MapPut(@, key, L1Expiry(ttl_memory, t))]
    IN IF c2.exc # ""
       THEN [c |-> c2, l2 |-> store, ret |-> None, outcome |-> "raise", count |-> 0]
       ELSE [c |-> c3,
             l2 |-> IF fault THEN store ELSE L2Set(store, key, value, ttl_disk, t),
             ret |-> None, outcome |-> "done", count |-> 0]

\* Faulty variant of set: the L2 write comes first, and when it raises the
\* L1 write is skipped.
set_op_l2_first(c0, store, cap, key, value, ttl_memory, ttl_disk, t, fault) ==
    LET c1 == [c0 EXCEPT !.stats.sets = @ + 1]
        c2 == _evict_lru(c1, cap)
        c3 == [c2 EXCEPT !.l1 = DictPut(@, key, value),
                         !.l1_ttl = MapPut(@, key, L1Expiry(ttl_memory, t))]
    IN IF fault
       THEN [c |-> c1, l2 |-> store, ret |-> None, outcome |-> "done", count |-> 0]
       ELSE [c |-> c3, l2 |-> L2Set(store, key, value, ttl_disk, t),
             ret |-> None, outcome |-> "done", count |-> 0]

\* set (cache.py 156-192).  fault: self.l2.set raises.
set_op(c0, store, cap, key, value, ttl_memory, ttl_disk, t, fault) ==
    LET c1 == [c0 EXCEPT !.stats.sets = @ + 1]
        c2 == _evict_lru(c1, cap)
        c3 == [c2 EXCEPT !.l1 = DictPut(@, key, value),
                         !.l1_ttl = MapPut(@, key, L1Expiry(ttl_memory, t))]
    IN IF c2.exc # ""
       THEN [c |-> c2, l2 |-> store, ret |-> None, outcome |-> "raise", count |-> 0]
       ELSE [c |-> c3,
             l2 |-> IF fault THEN store ELSE L2Set(store, key, value, ttl_disk, t),
             ret |-> None, outcome |-> "done", count |-> 0]

\* Faulty variant of invalidate_exact: the expiry record of the key is left
\* in self.l1_ttl.
invalidate_exact_keeps_ttl(c0, store, exact_key, t, fault) ==
    LET inL1 == DictHas(c0.l1, exact_key)
        c == IF inL1 THEN [c0 EXCEPT !.l1 = DictDel(@, exact_key)] ELSE c0
        n1 == IF inL1 THEN 1 ELSE 0
        found == fault # "get" /\ L2Get(store, exact_key, t) # None
        deleted == found /\ fault # "delete"
    IN [c |-> c, l2 |-> IF deleted THEN L2Delete(store, exact_key) ELSE store,
        ret |-> None, outcome |-> "done", count |-> n1 + (IF deleted THEN 1 ELSE 0)]

\* invalidate, the exact_key branch (cache.py 211-227).
\* fault: "get" (self.l2.get raises), "delete" (self.l2.delete raises) or "".
invalidate_exact(c0, store, exact_key, t, fault) ==
    LET inL1 == DictHas(c0.l1, exact_key)
        c == IF inL1
             THEN [c0 EXCEPT !.l1 = DictDel(@, exact_key),
                             !.l1_ttl = IF exact_key \in DOMAIN @ THEN MapDel(@, exact_key) ELSE @]
             ELSE c0
        n1 == IF inL1 THEN 1 ELSE 0
        found == fault # "get" /\ L2Get(store, exact_key, t) # None
        deleted == found /\ fault # "delete"
    IN [c |-> c, l2 |-> IF deleted THEN L2Delete(store, exact_key) ELSE store,
        ret |-> None, outcome |-> "done", count |-> n1 + (IF deleted THEN 1 ELSE 0)]

\* invalidate, the pattern branch (cache.py 229-252).  done: the matching L2
\* keys deleted before the scan ended; fewer than all of them means list(self.l2)
\* or a self.l2.delete raised there.
L2Matching(store, prefix) == {x \in DOMAIN store : startswith(x, prefix)}

\* Faulty variant of invalidate_pattern: keys are compared with the prefix
\* for equality instead of with startswith.
invalidate_pattern_equal(c0, store, pattern, done) ==
    LET prefix == rstrip(pattern)
        keys_to_delete == SelectSeq(c0.l1, LAMBDA e : e.k = prefix)
        gone == DictKeys(keys_to_delete)
        c == [c0 EXCEPT !.l1 = SelectSeq(@, LAMBDA e : e.k \notin gone),
                        !.l1_ttl = [x \in (DOMAIN @) \ gone |-> @[x]]]
    IN [c |-> c, l2 |-> [x \in (DOMAIN store) \ (done \cap {prefix}) |-> store[x]],
        ret |-> None, outcome |-> "done",
        count |-> Len(keys_to_delete) + Cardinality(done \cap {prefix})]

invalidate_pattern(c0, store, pattern, done) ==
    LET prefix == rstrip(pattern)
        keys_to_delete == SelectSeq(c0.l1, LAMBDA e : startswith(e.k, prefix))
        gone == DictKeys(keys_to_delete)
        c == [c0 EXCEPT !.l1 = SelectSeq(@, LAMBDA e : e.k \notin gone),
                        !.l1_ttl = [x \in (DOMAIN @) \ gone |-> @[x]]]
    IN [c |-> c, l2 |-> [x \in (DOMAIN store) \ done |-> store[x]],
        ret |-> None, outcome |-> "done", count |-> Len(keys_to_delete) + Cardinality(done)]

\* invalidate (cache.py 194-252): pattern and exact_key are Optional[str],
\* <<>> for None and <<s>> for the string s.
invalidate(c0, store, pattern, exact_key, t, fault, done) ==
    IF exact_key # <<>> /\ Truthy(exact_key[1])
    THEN invalidate_exact(c0, store, exact_key[1], t, fault)
    ELSE IF pattern # <<>> /\ Truthy(pattern[1])
    THEN invalidate_pattern(c0, store, pattern[1], done)
    ELSE [c |-> c0, l2 |-> store, ret |-> None, outcome |-> "done", count |-> 0]

\* Faulty variant of clear: only L1 is emptied.
clear_op_l1_only(c0, store, fault) ==
    LET c == [c0 EXCEPT !.l1 = <<>>, !.l1_ttl = EmptyMap] IN
    IF fault
    THEN [c |-> [c EXCEPT !.exc = "L2Error"], l2 |-> store,
          ret |-> None, outcome |-> "raise", count |-> 0]
    ELSE [c |-> c, l2 |-> store, ret |-> None, outcome |-> "done", count |-> 0]

\* Faulty variant of clear: the counters are reset with the tiers.
clear_op_resets(c0, store, fault) ==
    LET c == [c0 EXCEPT !.l1 = <<>>, !.l1_ttl = EmptyMap,
                        !.stats = [n \in DOMAIN c0.stats |-> 0]] IN
    IF fault
    THEN [c |-> [c EXCEPT !.exc = "L2Error"], l2 |-> store,
          ret |-> None, outcome |-> "raise", count |-> 0]
    ELSE [c |-> c, l2 |-> EmptyMap, ret |-> None, outcome |-> "done", count |-> 0]

\* clear (cache.py 254-259).  fault: self.l2.clear raises, after L1 was emptied.
clear_op(c0, store, fault) ==
    LET c == [c0 EXCEPT !.l1 = <<>>, !.l1_ttl = EmptyMap] IN
    IF fault
    THEN [c |-> [c EXCEPT !.exc = "L2Error"], l2 |-> store,
          ret |-> None, outcome |-> "raise", count |-> 0]
    ELSE [c |-> c, l2 |-> EmptyMap, ret |-> None, outcome |-> "done", count |-> 0]

\* The statistics get_stats derives (cache.py 269-274, 281).  The rate is a
\* float rounded to 2 decimals; it is kept here as a whole number of
\* hundredths of a percent, rounded from the exact quotient as round() does,
\* to the nearest with ties to the even one.
total_requests(st) == st.l1_hits + st.l2_hits + st.misses

\* Faulty variant of Round2: the quotient is truncated.
Round2Down(num, den) == (num * 10000) \div den

Round2(num, den) ==
    LET q == (num * 10000) \div den
        r == (num * 10000) % den
    IN IF 2 * r < den THEN q
       ELSE IF 2 * r > den THEN q + 1
       ELSE IF q % 2 = 0 THEN q ELSE q + 1

hit_rate_percent(st) ==
    IF total_requests(st) > 0
    THEN Round2(st.l1_hits + st.l2_hits, total_requests(st))
    ELSE 0

\* get_stats (cache.py 261-282).  fault: len(self.l2) raises.  The dict it
\* returns is the field report of the result.
get_stats_op(c0, store, fault) ==
    IF fault
    THEN [c |-> [c0 EXCEPT !.exc = "L2Error"], l2 |-> store,
          ret |-> None, outcome |-> "raise", count |-> 0]
    ELSE [c |-> c0, l2 |-> store, ret |-> None,
          report |-> [l1_hits |-> c0.stats.l1_hits, l2_hits |-> c0.stats.l2_hits,
                   misses |-> c0.stats.misses, sets |-> c0.stats.sets,
                   evictions |-> c0.stats.evictions,
                   l1_size |-> Len(c0.l1), l2_size |-> Cardinality(DOMAIN store),
                   total_requests |-> total_requests(c0.stats),
                   hit_rate_percent |-> hit_rate_percent(c0.stats)],
          outcome |-> "done", count |-> 0]

\* cleanup (cache.py 284-304).  fault: "cull" (self.l2.cull raises, absorbed),
\* "len" (the len(self.l2) of get_stats raises) or "".  The statistics are
\* logged, not returned.
cleanup_op(c0, store, t, fault) ==
    LET c == _evict_expired(c0, t)
        culled == IF fault = "cull" THEN store ELSE L2Cull(store, t)
    IN IF c.exc # ""
       THEN [c |-> c, l2 |-> store, ret |-> None, outcome |-> "raise", count |-> 0]
       ELSE LET logged == get_stats_op(c, culled, fault = "len") IN
            [c |-> logged.c, l2 |-> logged.l2, ret |-> None,
             outcome |-> logged.outcome, count |-> 0]

\* close (cache.py 306-312).  A raising self.l2.close is absorbed; the store
\* reopens its connection on the next call, so nothing else changes.
close_op(c0, store, fault) ==
    [c |-> c0, l2 |-> store, ret |-> None, outcome |-> "done", count |-> 0]

\* ---------------------------------------------------------------- the run
Self == Cache(l1, l1_ttl, stats)

NoStats == [l1_hits |-> 0, l2_hits |-> 0, misses |-> 0, sets |-> 0, evictions |-> 0]

\* A call's record: its name, its key (or pattern) argument, the instant it
\* was made, the value it returned, how it ended, the count it returned, the
\* exception that escaped ("" when it returned normally), the L2 call that
\* raised inside it ("" when none did), the dict it returned (<<>> when it
\* returned none), what it added to each counter, how many of the calls made
\* so far were gets, and the name, key and instant of the call before it.
Call(op, key, r) ==
    [op |-> op, key |-> key, t |-> now, ret |-> r.ret, outcome |-> r.outcome,
     count |-> r.count, exc |-> r.c.exc, fault |-> "",
     report |-> IF "report" \in DOMAIN r THEN <<r.report>> ELSE <<>>,
     d |-> [n \in DOMAIN stats |-> r.c.stats[n] - stats[n]],
     ngets |-> last.ngets + (IF op = "get" THEN 1 ELSE 0),
     prev |-> [op |-> last.op, key |-> last.key, t |-> last.t]]

NoCall == [op |-> "init", key |-> <<>>, t |-> 0, ret |-> None, outcome |-> "done",
           count |-> 0, exc |-> "", fault |-> "", report |-> <<>>, d |-> NoStats,
           ngets |-> 0, prev |-> [op |-> "init", key |-> <<>>, t |-> 0]]

Commit(r, call, nfaults) ==
    /\ l1' = r.c.l1
    /\ l1_ttl' = r.c.l1_ttl
    /\ stats' = r.c.stats
    /\ l2' = r.l2
    /\ faults' = faults + nfaults
    /\ calls' = calls + 1
    /\ last' = call
    /\ UNCHANGED <<l1_max_size, now, th>>

FaultFlags == IF faults < MaxFaults THEN {FALSE, TRUE} ELSE {FALSE}
Requests == stats.l1_hits + stats.l2_hits + stats.misses

\* hist[k] is <<>> before any set of k, else <<h>> with h the arguments and
\* instant of the most recent set(k, ...), whether its L2 write went through,
\* how many get(k) have been made since, whether anything else (an
\* invalidate that names or matches k, a clear) has been called on k since,
\* whether the _evict_lru of a later set has evicted k from L1, the number
\* of the call that last made k a key of L1 (ins), and the value a get has
\* promoted for k from L2 into L1 with nothing but gets called on k and no
\* eviction of k since (promoted, <<>> when there is none).
Touch(h, how) ==
    IF h = <<>> THEN h
    ELSE IF how = "get" THEN <<[h[1] EXCEPT !.gets = @ + 1]>>
    ELSE IF how = "evict" THEN <<[h[1] EXCEPT !.evicted = TRUE, !.promoted = <<>>]>>
    ELSE <<[h[1] EXCEPT !.other = TRUE, !.promoted = <<>>]>>

Promoted(h, r, n) ==
    IF h # <<>> /\ r.outcome = "l2_hit"
    THEN <<[h[1] EXCEPT !.ins = n, !.promoted = <<r.ret>>]>>
    ELSE h

\* The callers that run at the same time, and what each holds while inside a
\* call: the statement it is at, the call and its arguments, the locals of
\* the method it is in (expired_keys and the keys still to test in
\* _evict_expired, oldest_key in _evict_lru, the counter value read by a
\* "+= 1" not yet written back), and how the call ended.
Threads == 1..NThreads

Idle ==
    [pc |-> "idle", op |-> "", key |-> <<>>, value |-> None, ctx |-> "",
     ks |-> <<>>, expired_keys |-> <<>>, oldest_key |-> <<>>, tmp |-> <<>>,
     ret |-> None, exc |-> ""]

Init ==
    /\ l1 = <<>>
    /\ l1_ttl = EmptyMap
    /\ l1_max_size \in 1..MaxCapacity
    /\ l2 = EmptyMap
    /\ stats = NoStats
    /\ now = 0
    /\ faults = 0
    /\ calls = 0
    /\ last = NoCall
    /\ hist = [k \in Keys |-> <<>>]
    /\ th = [t \in Threads |-> Idle]

GetCall(key) ==
    /\ \E fault \in FaultFlags :
         LET r == get_op(Self, l2, key, now, fault) IN
         /\ fault => ~L1Hit(_evict_expired(Self, now), key, now)
         /\ Commit(r, [Call("get", key, r) EXCEPT !.fault = IF fault THEN "l2.get" ELSE ""],
                   IF fault THEN 1 ELSE 0)
         /\ hist' = [hist EXCEPT ![key] = Promoted(Touch(@, "get"), r, calls + 1)]

Get(key) == calls < MaxCalls /\ GetCall(key)

SetCall(key, value, ttl_memory, ttl_disk) ==
    /\ \E fault \in FaultFlags :
         LET r == set_op(Self, l2, l1_max_size, key, value, ttl_memory, ttl_disk, now, fault) IN
         /\ Commit(r, [Call("set", key, r) EXCEPT !.fault = IF fault THEN "l2.set" ELSE ""],
                   IF fault THEN 1 ELSE 0)
         /\ hist' = [k \in Keys |->
                        IF k = key
                        THEN <<[v |-> value, t |-> now, tm |-> ttl_memory, td |-> ttl_disk,
                                l2ok |-> ~fault, gets |-> 0, other |-> FALSE,
                                evicted |-> FALSE,
                                ins |-> IF DictHas(_evict_lru(Self, l1_max_size).l1, key)
                                        THEN hist[key][1].ins ELSE calls + 1,
                                promoted |-> <<>>]>>
                        ELSE IF Len(l1) >= l1_max_size /\ l1 # <<>> /\ l1[1].k = k
                        THEN Touch(hist[k], "evict")
                        ELSE hist[k]]

Set(key, value, ttl_memory, ttl_disk) == calls < MaxCalls /\ SetCall(key, value, ttl_memory, ttl_disk)

InvalidateExactCall(key) ==
    /\ \E fault \in {""} \cup (IF faults < MaxFaults THEN {"get", "delete"} ELSE {}) :
         LET r == invalidate(Self, l2, <<>>, <<key>>, now, fault, {}) IN
         /\ fault # "" => Truthy(key)
         /\ fault = "delete" => L2Get(l2, key, now) # None
         /\ Commit(r, [Call("invalidate", key, r) EXCEPT !.fault = fault],
                   IF fault # "" THEN 1 ELSE 0)
    /\ hist' = [hist EXCEPT ![key] = Touch(@, "other")]

InvalidateExact(key) == calls < MaxCalls /\ InvalidateExactCall(key)

InvalidatePattern(pattern) ==
    /\ calls < MaxCalls
    /\ \E done \in SUBSET L2Matching(l2, rstrip(pattern)) :
         LET r == invalidate(Self, l2, <<pattern>>, <<>>, now, "", done)
             faulty == done # L2Matching(l2, rstrip(pattern))
         IN
         /\ faulty => faults < MaxFaults /\ Truthy(pattern)
         /\ ~Truthy(pattern) => done = {}
         /\ Commit(r, [Call("invalidate_pattern", pattern, r)
                          EXCEPT !.fault = IF faulty THEN "scan" ELSE ""],
                   IF faulty THEN 1 ELSE 0)
    /\ hist' = [k \in Keys |-> IF Truthy(pattern) /\ startswith(k, rstrip(pattern))
                               THEN Touch(hist[k], "other") ELSE hist[k]]

ClearCall ==
    /\ \E fault \in FaultFlags :
         LET r == clear_op(Self, l2, fault) IN
         Commit(r, [Call("clear", <<>>, r) EXCEPT !.fault = IF fault THEN "l2.clear" ELSE ""],
                IF fault THEN 1 ELSE 0)
    /\ hist' = [k \in Keys |-> Touch(hist[k], "other")]

Clear == calls < MaxCalls /\ ClearCall

GetStatsCall ==
    /\ \E fault \in FaultFlags :
         LET r == get_stats_op(Self, l2, fault) IN
         Commit(r, [Call("get_stats", <<>>, r) EXCEPT !.fault = IF fault THEN "len" ELSE ""],
                IF fault THEN 1 ELSE 0)
    /\ UNCHANGED hist

GetStats == calls < MaxCalls /\ GetStatsCall

Cleanup ==
    /\ calls < MaxCalls
    /\ \E fault \in {""} \cup (IF faults < MaxFaults THEN {"cull", "len"} ELSE {}) :
         LET r == cleanup_op(Self, l2, now, fault) IN
         Commit(r, [Call("cleanup", <<>>, r) EXCEPT !.fault = fault],
                IF fault # "" THEN 1 ELSE 0)
    /\ UNCHANGED hist

Close ==
    /\ calls < MaxCalls
    /\ \E fault \in FaultFlags :
         LET r == close_op(Self, l2, fault) IN
         Commit(r, [Call("close", <<>>, r) EXCEPT !.fault = IF fault THEN "l2.close" ELSE ""],
                IF fault THEN 1 ELSE 0)
    /\ UNCHANGED hist

\* The clock.  The code reads it only to stamp and to compare expiries, so it
\* is advanced only while some stored expiry has not yet passed.
Pending ==
    \/ \E k \in DOMAIN l1_ttl : l1_ttl[k] # <<>> /\ l1_ttl[k][1] >= now
    \/ \E k \in DOMAIN l2 : l2[k].exp # <<>> /\ l2[k].exp[1] >= now

Tick ==
    /\ now < MaxTime
    /\ Pending
    /\ now' = now + 1
    /\ UNCHANGED <<l1, l1_ttl, l1_max_size, l2, stats, faults, calls, last, hist, th>>

Next ==
    \/ \E key \in Keys : Get(key)
    \/ \E key \in Keys, value \in {Payload(stats.sets + 1), None}, ttl \in TTLs :
          Set(key, value, ttl[1], ttl[2])
    \/ \E key \in Keys : InvalidateExact(key)
    \/ \E pattern \in Patterns : InvalidatePattern(pattern)
    \/ Clear
    \/ GetStats
    \/ Cleanup
    \/ Close
    \/ Tick

Spec == Init /\ [][Next]_vars

\* ------------------------------------------------------------ longer runs
\* More calls in a row, of fewer kinds: get, get_stats and set, the latter
\* with no TTL or with a negative one, on two keys, the disk store answering
\* every call, the clock standing still.
LongGet(key) == calls < MaxLongCalls /\ GetCall(key) /\ faults' = faults

LongSet(key, ttl_memory, ttl_disk) ==
    /\ calls < MaxLongCalls
    /\ SetCall(key, Payload(stats.sets + 1), ttl_memory, ttl_disk)
    /\ faults' = faults

LongGetStats == calls < MaxLongCalls /\ GetStatsCall /\ faults' = faults

NextLong ==
    \/ \E key \in LongKeys : LongGet(key)
    \/ \E key \in LongKeys, ttl \in {<<NoTTL, NoTTL>>} \cup BadTTLs : LongSet(key, ttl[1], ttl[2])
    \/ LongGetStats

SpecLong == Init /\ [][NextLong]_vars

\* ------------------------------------------------- callers running at once
\* The same methods, one statement at a time: between any two statements of
\* one caller, another caller may run.  The class takes no lock, so every
\* read and write of self.l1, self.l1_ttl and self.stats below is a step of
\* its own; a dict operation or a call of the disk store is one step.
KeysOf(t) == {k \in Keys : Len(k) % NThreads = t - 1}

At(t, pc) == th[t].pc = pc
Goto(t, pc) == th' = [th EXCEPT ![t].pc = pc]
Ended(s, ret, exc) ==
    [Idle EXCEPT !.pc = "done", !.op = s.op, !.key = s.key, !.value = s.value,
                 !.ret = ret, !.exc = exc]
Return(t, ret) == th' = [th EXCEPT ![t] = Ended(th[t], ret, "")]
Raise(t, exc) == th' = [th EXCEPT ![t] = Ended(th[t], None, exc)]

\* Before the callers start, one caller fills the cache, call after call.
SerialSet(key) ==
    /\ \A t \in Threads : At(t, "idle")
    /\ calls < MaxCapacity
    /\ Set(key, Payload(calls + 1), NoTTL, NoTTL)
    /\ faults' = faults

\* A caller enters set(key, value) or get(key) on one of its own keys.
Start(t, op, key) ==
    /\ At(t, "idle")
    /\ th' = [th EXCEPT ![t] =
                 [Idle EXCEPT !.pc = IF op = "set" THEN "set_sets" ELSE "sweep_list",
                              !.op = op, !.key = key,
                              !.value = IF op = "set" THEN Payload(calls + 1) ELSE None]]
    /\ calls' = calls + 1
    /\ UNCHANGED <<l1, l1_ttl, l1_max_size, l2, stats, now, faults, last, hist>>

\* self.stats[name] += 1: the statement each counter is bumped at, and the
\* statement that follows it.
Inc ==
    [set_sets       |-> [name |-> "sets",      next |-> "lru_check"],
     lru_count      |-> [name |-> "evictions", next |-> "set_l1"],
     sweep_count    |-> [name |-> "evictions", next |-> "sweep_del_l1"],
     get_l1_count   |-> [name |-> "l1_hits",   next |-> "get_l1_return"],
     get_l2_count   |-> [name |-> "l2_hits",   next |-> "promote_l1"],
     get_miss_count |-> [name |-> "misses",    next |-> "get_miss_return"]]

IncLoad(t) ==
    /\ th[t].pc \in DOMAIN Inc /\ th[t].tmp = <<>>
    /\ th' = [th EXCEPT ![t].tmp = <<stats[Inc[th[t].pc].name]>>]
    /\ UNCHANGED <<l1, l1_ttl, l1_max_size, l2, stats, now, faults, calls, last, hist>>

IncStore(t) ==
    /\ th[t].pc \in DOMAIN Inc /\ th[t].tmp # <<>>
    /\ stats' = [stats EXCEPT ![Inc[th[t].pc].name] = th[t].tmp[1] + 1]
    /\ th' = [th EXCEPT ![t].tmp = <<>>, ![t].pc = Inc[th[t].pc].next]
    /\ UNCHANGED <<l1, l1_ttl, l1_max_size, l2, now, faults, calls, last, hist>>

\* The statements change only what they name.
Local == UNCHANGED <<l1, l1_ttl, l1_max_size, l2, stats, now, faults, calls, last, hist>>
OnL1 == UNCHANGED <<l1_ttl, l1_max_size, l2, stats, now, faults, calls, last, hist>>
OnTTL == UNCHANGED <<l1, l1_max_size, l2, stats, now, faults, calls, last, hist>>
OnL2 == UNCHANGED <<l1, l1_ttl, l1_max_size, stats, now, faults, calls, last, hist>>

\* _evict_lru, statement by statement.
\* if len(self.l1) >= self.l1_max_size:
LruCheck(t) ==
    /\ At(t, "lru_check")
    /\ Goto(t, IF Len(l1) >= l1_max_size THEN "lru_oldest" ELSE "set_l1")
    /\ Local

\* oldest_key = next(iter(self.l1))
LruOldest(t) ==
    /\ At(t, "lru_oldest")
    /\ IF l1 = <<>>
       THEN Raise(t, "StopIteration")
       ELSE th' = [th EXCEPT ![t].oldest_key = l1[1].k, ![t].pc = "lru_del_l1"]
    /\ Local

\* del self.l1[oldest_key]
LruDelL1(t) ==
    /\ At(t, "lru_del_l1")
    /\ IF DictHas(l1, th[t].oldest_key)
       THEN l1' = DictDel(l1, th[t].oldest_key) /\ Goto(t, "lru_ttl_check")
       ELSE l1' = l1 /\ Raise(t, "KeyError")
    /\ OnL1

\* if oldest_key in self.l1_ttl:
LruTtlCheck(t) ==
    /\ At(t, "lru_ttl_check")
    /\ Goto(t, IF th[t].oldest_key \in DOMAIN l1_ttl THEN "lru_del_ttl" ELSE "lru_count")
    /\ Local

\* del self.l1_ttl[oldest_key]
LruDelTtl(t) ==
    /\ At(t, "lru_del_ttl")
    /\ IF th[t].oldest_key \in DOMAIN l1_ttl
       THEN l1_ttl' = MapDel(l1_ttl, th[t].oldest_key) /\ Goto(t, "lru_count")
       ELSE l1_ttl' = l1_ttl /\ Raise(t, "KeyError")
    /\ OnTTL

\* set, after its counter and _evict_lru.
\* self.l1[key] = value
SetL1(t) ==
    /\ At(t, "set_l1")
    /\ l1' = DictPut(l1, th[t].key, th[t].value)
    /\ Goto(t, "set_ttl")
    /\ OnL1

\* self.l1_ttl[key] = None
SetTtl(t) ==
    /\ At(t, "set_ttl")
    /\ l1_ttl' = MapPut(l1_ttl, th[t].key, L1Expiry(NoTTL, now))
    /\ Goto(t, "set_l2")
    /\ OnTTL

\* self.l2.set(key, value)
SetL2(t) ==
    /\ At(t, "set_l2")
    /\ l2' = L2Set(l2, th[t].key, th[t].value, NoTTL, now)
    /\ Return(t, None)
    /\ OnL2

\* _is_expired(k), statement by statement, called from the list
\* comprehension of _evict_expired (ctx "sweep", k the next of the listed
\* keys) and from get's L1 test (ctx "get", k the key asked for).
TestKey(s) == IF s.ctx = "sweep" THEN Head(s.ks) ELSE s.key

Verdict(s, expired) ==
    IF s.ctx = "sweep"
    THEN [s EXCEPT !.ks = Tail(s.ks),
                   !.expired_keys = IF expired THEN Append(@, Head(s.ks)) ELSE @,
                   !.pc = IF Tail(s.ks) = <<>> THEN "sweep_del_l1" ELSE "exp_in"]
    ELSE [s EXCEPT !.pc = IF expired THEN "get_l2" ELSE "get_l1_count"]

\* if key not in self.l1_ttl: return True
IsExpiredIn(t) ==
    /\ At(t, "exp_in")
    /\ IF TestKey(th[t]) \notin DOMAIN l1_ttl
       THEN th' = [th EXCEPT ![t] = Verdict(th[t], TRUE)]
       ELSE Goto(t, "exp_read")
    /\ Local

\* expiry = self.l1_ttl[key]; the None test and the clock comparison
IsExpiredRead(t) ==
    /\ At(t, "exp_read")
    /\ IF TestKey(th[t]) \notin DOMAIN l1_ttl
       THEN Raise(t, "KeyError")
       ELSE th' = [th EXCEPT ![t] = Verdict(th[t], _is_expired(l1_ttl, TestKey(th[t]), now))]
    /\ Local

\* _evict_expired, statement by statement.
\* list(self.l1.keys())
SweepList(t) ==
    /\ At(t, "sweep_list")
    /\ th' = [th EXCEPT ![t].ks = [i \in 1..Len(l1) |-> l1[i].k],
                        ![t].ctx = "sweep",
                        ![t].pc = IF l1 = <<>> THEN "sweep_del_l1" ELSE "exp_in"]
    /\ Local

\* for key in expired_keys: del self.l1[key]
SweepDelL1(t) ==
    /\ At(t, "sweep_del_l1")
    /\ IF th[t].expired_keys = <<>>
       THEN l1' = l1 /\ Goto(t, "get_l1_check")
       ELSE IF DictHas(l1, Head(th[t].expired_keys))
       THEN l1' = DictDel(l1, Head(th[t].expired_keys)) /\ Goto(t, "sweep_del_ttl")
       ELSE l1' = l1 /\ Raise(t, "KeyError")
    /\ OnL1

\* del self.l1_ttl[key]
SweepDelTtl(t) ==
    /\ At(t, "sweep_del_ttl")
    /\ IF Head(th[t].expired_keys) \in DOMAIN l1_ttl
       THEN /\ l1_ttl' = MapDel(l1_ttl, Head(th[t].expired_keys))
            /\ th' = [th EXCEPT ![t].expired_keys = Tail(@), ![t].pc = "sweep_count"]
       ELSE l1_ttl' = l1_ttl /\ Raise(t, "KeyError")
    /\ OnTTL

\* get, after _evict_expired.
\* if key in self.l1 and ...
GetL1Check(t) ==
    /\ At(t, "get_l1_check")
    /\ th' = [th EXCEPT ![t].ctx = "get",
                        ![t].pc = IF DictHas(l1, th[t].key) THEN "exp_in" ELSE "get_l2"]
    /\ Local

\* return self.l1[key]
GetL1Return(t) ==
    /\ At(t, "get_l1_return")
    /\ IF DictHas(l1, th[t].key)
       THEN Return(t, DictVal(l1, th[t].key))
       ELSE Raise(t, "KeyError")
    /\ Local

\* value = self.l2.get(key); if value is not None:
GetL2(t) ==
    /\ At(t, "get_l2")
    /\ LET value == L2Get(l2, th[t].key, now) IN
       th' = [th EXCEPT ![t].ret = value,
                        ![t].pc = IF value # None THEN "get_l2_count" ELSE "get_miss_count"]
    /\ Local

\* self.l1[key] = value
PromoteL1(t) ==
    /\ At(t, "promote_l1")
    /\ l1' = DictPut(l1, th[t].key, th[t].ret)
    /\ Goto(t, "promote_ttl")
    /\ OnL1

\* self.l1_ttl[key] = None; return value
PromoteTtl(t) ==
    /\ At(t, "promote_ttl")
    /\ l1_ttl' = MapPut(l1_ttl, th[t].key, NoTTL)
    /\ Return(t, th[t].ret)
    /\ OnTTL

\* return None
GetMissReturn(t) ==
    /\ At(t, "get_miss_return")
    /\ Return(t, None)
    /\ Local

NextConc ==
    \/ \E key \in Keys : SerialSet(key)
    \/ \E t \in Threads, op \in {"set", "get"} : \E key \in KeysOf(t) : Start(t, op, key)
    \/ \E t \in Threads : IncLoad(t)
    \/ \E t \in Threads : IncStore(t)
    \/ \E t \in Threads : LruCheck(t)
    \/ \E t \in Threads : LruOldest(t)
    \/ \E t \in Threads : LruDelL1(t)
    \/ \E t \in Threads : LruTtlCheck(t)
    \/ \E t \in Threads : LruDelTtl(t)
    \/ \E t \in Threads : SetL1(t)
    \/ \E t \in Threads : SetTtl(t)
    \/ \E t \in Threads : SetL2(t)
    \/ \E t \in Threads : SweepList(t)
    \/ \E t \in Threads : IsExpiredIn(t)
    \/ \E t \in Threads : IsExpiredRead(t)
    \/ \E t \in Threads : SweepDelL1(t)
    \/ \E t \in Threads : SweepDelTtl(t)
    \/ \E t \in Threads : GetL1Check(t)
    \/ \E t \in Threads : GetL1Return(t)
    \/ \E t \in Threads : GetL2(t)
    \/ \E t \in Threads : PromoteL1(t)
    \/ \E t \in Threads : PromoteTtl(t)
    \/ \E t \in Threads : GetMissReturn(t)

SpecConc == Init /\ [][NextConc]_vars

\* ------------------------------------------------------------ properties
\* What a get(key) issued now, with the disk store answering, would return.
Lookup(key) == get_op(Self, l2, key, now, FALSE).ret

\* The last call was get(k) and the call before it, at the same instant, was
\* set(k, ...): a set followed at once by a get of its key.
GetRightAfterSet ==
    /\ last.op = "get" /\ last.prev.op = "set"
    /\ last.prev.key = last.key /\ last.prev.t = last.t

\* The last call was get(k), the first call on k since the most recent
\* set(k, v, ttl_memory, ttl_disk), which gave both TTLs.
FirstGetSinceSet ==
    /\ last.op = "get" /\ hist[last.key] # <<>>
    /\ hist[last.key][1].gets = 1 /\ ~hist[last.key][1].other
    /\ hist[last.key][1].tm # <<>> /\ hist[last.key][1].td # <<>>

SetOf(key) == hist[key][1]
Elapsed(ttl) == last.t > SetOf(last.key).t + ttl[1]

\* C1: with calls made one at a time, L1 never holds more entries than the
\* configured capacity.
C1_L1WithinCapacity == Len(l1) <= l1_max_size

\* C2: no public operation raises to its caller when the disk store faults.
C2_NoCallRaises == last.exc = ""

\* C3: set(k, v, ttl_memory, ttl_disk) with positive TTLs followed at once by
\* get(k) returns v and adds exactly 1 to l1_hits, leaving l2_hits and misses
\* as they were.
C3_SetThenGetIsL1Hit ==
    ( /\ GetRightAfterSet /\ FirstGetSinceSet
      /\ SetOf(last.key).tm[1] > 0 /\ SetOf(last.key).td[1] > 0 )
    => /\ last.ret = SetOf(last.key).v
       /\ last.exc = ""
       /\ last.d.l1_hits = 1 /\ last.d.l2_hits = 0 /\ last.d.misses = 0

C3_Witness ==
    /\ GetRightAfterSet /\ FirstGetSinceSet
    /\ SetOf(last.key).tm[1] > 0 /\ SetOf(last.key).td[1] > 0
    /\ last.ret = Payload(1) /\ last.outcome = "l1_hit" /\ stats.l1_hits = 1

\* C4, C5, C8, C9 and C10 are read with the disk store answering: no L2 call
\* of the run has raised (faults = 0).
\* C4: after set(k, v, ttl_memory=m, ttl_disk=d) with m < d, the get(k) issued
\* once m has elapsed and before d has elapsed returns v, adds 1 to l2_hits
\* and promotes k into L1; the get(k) that follows at once returns v as an L1
\* hit, l2_hits unchanged.
GetBetweenTTLs ==
    /\ FirstGetSinceSet /\ faults = 0
    /\ SetOf(last.key).tm[1] < SetOf(last.key).td[1]
    /\ Elapsed(SetOf(last.key).tm)
    /\ last.t < SetOf(last.key).t + SetOf(last.key).td[1]

GetRightAfterL2Hit ==
    /\ last.op = "get" /\ last.prev.op = "get"
    /\ last.prev.key = last.key /\ last.prev.t = last.t
    /\ hist[last.key] # <<>> /\ hist[last.key][1].gets = 2 /\ ~hist[last.key][1].other
    /\ hist[last.key][1].tm # <<>> /\ hist[last.key][1].td # <<>>
    /\ faults = 0
    /\ SetOf(last.key).tm[1] < SetOf(last.key).td[1]
    /\ Elapsed(SetOf(last.key).tm)
    /\ last.t < SetOf(last.key).t + SetOf(last.key).td[1]

C4_L2HitPromotesThenL1Hit ==
    /\ GetBetweenTTLs
       => /\ last.ret = SetOf(last.key).v
          /\ last.outcome = "l2_hit" /\ last.d.l2_hits = 1
          /\ DictHas(l1, last.key) /\ DictVal(l1, last.key) = SetOf(last.key).v
    /\ GetRightAfterL2Hit
       => /\ last.ret = SetOf(last.key).v
          /\ last.outcome = "l1_hit" /\ last.d.l1_hits = 1 /\ last.d.l2_hits = 0

\* C4 holds of every payload other than None.
C4_NotNone ==
    /\ (GetBetweenTTLs /\ SetOf(last.key).v # None)
       => /\ last.ret = SetOf(last.key).v
          /\ last.outcome = "l2_hit" /\ last.d.l2_hits = 1
          /\ DictHas(l1, last.key) /\ DictVal(l1, last.key) = SetOf(last.key).v
    /\ (GetRightAfterL2Hit /\ SetOf(last.key).v # None)
       => /\ last.ret = SetOf(last.key).v
          /\ last.outcome = "l1_hit" /\ last.d.l1_hits = 1 /\ last.d.l2_hits = 0

\* C5: after set(k, v, ttl_memory=m, ttl_disk=d) whose disk write went
\* through, with nothing else called on k since, the get(k) issued after both
\* m and d have elapsed returns absent.
GetAfterBothTTLs ==
    /\ FirstGetSinceSet /\ SetOf(last.key).l2ok
    /\ Elapsed(SetOf(last.key).tm) /\ Elapsed(SetOf(last.key).td)

C5_ExpiredInBothTiersIsAbsent ==
    GetAfterBothTTLs => last.ret = None /\ last.outcome = "miss" /\ last.exc = ""

C5_Witness ==
    GetAfterBothTTLs /\ SetOf(last.key).v # None /\ last.outcome = "miss"

\* C8: invalidate(exact_key=k) makes the next get(k) return absent, and every
\* other key that was retrievable before the call is still retrievable after
\* it with the value it had.
C8_InvalidateExactKey ==
    [][\A k \in Keys :
         (faults = 0 /\ faults' = 0 /\ InvalidateExact(k))
         => /\ Lookup(k)' = None
            /\ \A o \in Keys \ {k} : Lookup(o)' = Lookup(o)]_vars

\* C8 holds of every key other than the empty string.
C8_NonEmptyKey ==
    [][\A k \in Keys \ {<<>>} :
         (faults = 0 /\ faults' = 0 /\ InvalidateExact(k))
         => /\ Lookup(k)' = None
            /\ \A o \in Keys \ {k} : Lookup(o)' = Lookup(o)]_vars

\* The two readings of "the literal prefix" of a pattern that ends in '*':
\* the pattern without its last character, and the pattern without all of
\* its trailing '*' characters.
IsPrefix(q, s) == \E n \in 0..Len(s) : q = SubSeq(s, 1, n)
WithoutLastStar(p) == SubSeq(p, 1, Len(p) - 1)
WithoutTrailingStars(p) ==
    CHOOSE q \in {SubSeq(p, 1, n) : n \in 0..Len(p)} :
        /\ (q = <<>> \/ q[Len(q)] # "*")
        /\ \A i \in (Len(q) + 1)..Len(p) : p[i] = "*"

\* What invalidate(pattern=p) must have done for the literal prefix pre: every
\* key that starts with pre is gone from both tiers, every other key is in
\* both tiers as it was.
PatternEffect(pre) ==
    \A k \in Keys :
        IF IsPrefix(pre, k)
        THEN /\ ~DictHas(l1', k) /\ k \notin DOMAIN l1_ttl' /\ k \notin DOMAIN l2'
        ELSE /\ DictHas(l1', k) = DictHas(l1, k)
             /\ DictHas(l1, k) => DictVal(l1', k) = DictVal(l1, k) /\ l1_ttl'[k] = l1_ttl[k]
             /\ (k \in DOMAIN l2') = (k \in DOMAIN l2)
             /\ k \in DOMAIN l2 => l2'[k] = l2[k]

FilledPastCapacity ==
    /\ calls = l1_max_size + 1 /\ stats.sets = calls
    /\ Cardinality({k \in Keys : hist[k] # <<>>}) = calls
    /\ \A k \in Keys : hist[k] # <<>> /\ hist[k][1].tm # <<>>
                          => now <= hist[k][1].t + hist[k][1].tm[1]

C10_OneEvictionPastCapacity ==
    FilledPastCapacity => stats.evictions = 1 /\ Len(l1) = l1_max_size

C10_Witness ==
    FilledPastCapacity /\ l1_max_size = 2 /\ stats.evictions = 1 /\ Len(l1) = 2

\* Every concurrent caller's call has ended, by returning or by raising.
AllEnded == \A t \in Threads : At(t, "done")
AllSets == \A t \in Threads : th[t].op = "set"

\* C6: after N concurrent set calls on N distinct keys, N not above the
\* capacity, have all returned, every one of the N keys is retrievable with
\* its own value, and l1_size (the length of L1) is the number of keys L1
\* holds.
C6_ConcurrentSetsKeepEveryWrite ==
    (AllEnded /\ AllSets /\ NThreads <= l1_max_size /\ \A t \in Threads : th[t].exc = "")
    => /\ \A t \in Threads : Lookup(th[t].key) = th[t].value
       /\ Len(l1) = Cardinality(DictKeys(l1))

\* The statements of set from its capacity check to the end of its insert,
\* and of a promoting get from its L2 read to the end of its L1 write.
InSection(s) ==
    s.pc \in {"lru_oldest", "lru_del_l1", "lru_ttl_check", "lru_del_ttl", "lru_count",
              "set_l1", "set_ttl", "get_l2_count", "promote_l1", "promote_ttl"}

\* C7: while one caller is between the capacity check and the insert of its
\* set, or between the L2 read and the L1 write of its promoting get, no step
\* of another caller changes L1; and so, as long as no get has promoted, L1
\* never holds more entries than the capacity, and once all calls have
\* returned a key held by both tiers has the same value in both.
C7_CriticalSections ==
    [][/\ \A t, u \in Threads :
            (t # u /\ InSection(th[t]) /\ th'[u] # th[u])
            => l1' = l1 /\ l1_ttl' = l1_ttl
       /\ stats'.l2_hits = 0 => Len(l1') <= l1_max_size'
       /\ (\A t \in Threads : th'[t].pc = "done" /\ th'[t].exc = "")
          => \A k \in DictKeys(l1') \cap DOMAIN l2' : DictVal(l1', k) = l2'[k].v]_vars

\* The part of C7 about the capacity alone.
C7_CapacityWithoutPromotion == stats.l2_hits = 0 => Len(l1) <= l1_max_size

\* C11: cleanup never raises on partial failure: when an L2 step of it fails
\* (the cull, or the size read of the statistics it logs), cleanup returns
\* normally and the L1 sweep it performed stays in effect, no expired entry
\* being left in L1.
C11_CleanupNeverRaises ==
    (last.op = "cleanup" /\ last.fault # "")
    => /\ last.exc = ""
       /\ \A k \in DictKeys(l1) : ~_is_expired(l1_ttl, k, last.t)

\* C11 holds of the cleanup calls in which only self.l2.cull() raised.
C11_CullFaultAbsorbed ==
    (last.op = "cleanup" /\ last.fault = "cull")
    => /\ last.exc = ""
       /\ \A k \in DictKeys(l1) : ~_is_expired(l1_ttl, k, last.t)

\* A get(k) of a key that no tier holds.
AbsentGet(k) == Get(k) /\ ~DictHas(l1, k) /\ k \notin DOMAIN l2

MissOnly ==
    /\ last'.ret = None /\ last'.exc = ""
    /\ last'.d.misses = 1 /\ last'.d.l1_hits = 0 /\ last'.d.l2_hits = 0 /\ last'.d.sets = 0

\* C12 as stated: get on a key that is present in neither tier returns absent
\* and adds exactly 1 to misses, leaving l1_hits, l2_hits, sets and the
\* contents of both tiers unchanged.
C12_AbsentGetChangesNothing ==
    [][\A k \in Keys :
         AbsentGet(k) => MissOnly /\ l1' = l1 /\ l1_ttl' = l1_ttl /\ l2' = l2]_vars

\* C12 as amended: L2 is unchanged, and L1 is unchanged but for the entries
\* whose expiry has passed, which the sweep get starts with removes, adding
\* 1 to evictions for each.
C12_AbsentGetOnlySweeps ==
    [][\A k \in Keys :
         AbsentGet(k)
         => /\ MissOnly
            /\ l2' = l2
            /\ l1' = SelectSeq(l1, LAMBDA e : ~_is_expired(l1_ttl, e.k, now))
            /\ l1_ttl' = [x \in DictKeys(l1') |-> l1_ttl[x]]
            /\ last'.d.evictions = Len(l1) - Len(l1')]_vars

C12_Witness ==
    /\ last.op = "get" /\ last.outcome = "miss" /\ hist[last.key] = <<>>
    /\ last.d.evictions = 1 /\ last.d.misses = 1

\* The last call was get(k), the most recent set(k, v, ...) lost its L2 write
\* to a fault, and since then k has not been invalidated, cleared or evicted
\* and its L1 expiry has not passed.
GetAfterFaultedSet ==
    /\ last.op = "get" /\ hist[last.key] # <<>>
    /\ ~SetOf(last.key).l2ok /\ ~SetOf(last.key).other /\ ~SetOf(last.key).evicted
    /\ (SetOf(last.key).tm = <<>> \/ ~Elapsed(SetOf(last.key).tm))

\* C13: when the L2 write fails during set(k, v, ...), set does not raise,
\* sets is still incremented and the L1 write has taken effect; get(k)
\* returns v as an L1 hit for as long as the L1 entry is unexpired and not
\* evicted.
C13_FaultedSetServesFromL1 ==
    /\ (last.op = "set" /\ last.fault = "l2.set")
       => /\ last.exc = "" /\ last.d.sets = 1
          /\ DictHas(l1, last.key) /\ DictVal(l1, last.key) = SetOf(last.key).v
          /\ l1_ttl[last.key] = L1Expiry(SetOf(last.key).tm, last.t)
    /\ GetAfterFaultedSet
       => /\ last.ret = SetOf(last.key).v /\ last.exc = ""
          /\ last.outcome = "l1_hit" /\ last.d.l1_hits = 1

C13_Witness ==
    /\ GetAfterFaultedSet /\ SetOf(last.key).tm # <<>> /\ last.t > SetOf(last.key).t
    /\ last.ret = Payload(1) /\ last.outcome = "l1_hit"

\* C14: when the L2 read fails during get(k), k not being a live L1 entry,
\* get returns absent without raising and counts a miss: misses + 1, l2_hits
\* and l1_hits unchanged, nothing promoted into L1.
C14_FaultedReadIsAMiss ==
    (last.op = "get" /\ last.fault = "l2.get")
    => /\ last.ret = None /\ last.exc = "" /\ last.outcome = "miss"
       /\ last.d.misses = 1 /\ last.d.l2_hits = 0 /\ last.d.l1_hits = 0
       /\ ~DictHas(l1, last.key) /\ last.key \notin DOMAIN l1_ttl

\* The faulted read was of a key whose L2 row is live: without the fault the
\* get would have been an L2 hit.
C14_Witness ==
    /\ last.op = "get" /\ last.fault = "l2.get" /\ last.outcome = "miss"
    /\ L2Get(l2, last.key, last.t) # None

\* C15: a set call with a negative ttl_memory or ttl_disk is rejected with an
\* explicit invalid-argument failure reported to the caller, and stores
\* nothing in either tier.
C15_NegativeTTLRejected ==
    [][\A key \in LongKeys, ttl \in BadTTLs :
         LongSet(key, ttl[1], ttl[2])
         => /\ last'.exc # ""
            /\ l1' = l1 /\ l1_ttl' = l1_ttl /\ l2' = l2]_vars

\* C16: get_stats() returns a field named hits whose value is the total
\* number of cache hits, l1_hits + l2_hits (so that after 3 hitting gets and
\* 1 missing get it reports hits = 3, misses = 1, total_requests = 4).
C16_StatsReportHits ==
    (last.op = "get_stats" /\ last.exc = "")
    => /\ "hits" \in DOMAIN last.report[1]
       /\ last.report[1].hits = stats.l1_hits + stats.l2_hits
       /\ last.report[1].misses = stats.misses
       /\ last.report[1].total_requests = stats.l1_hits + stats.l2_hits + stats.misses

\* The rest of what C16 expects of that report holds.
C16_ThreeHitsOneMiss ==
    (last.op = "get_stats" /\ last.exc = "" /\ stats.l1_hits + stats.l2_hits = 3 /\ stats.misses = 1)
    => /\ last.report[1].misses = 1 /\ last.report[1].total_requests = 4
       /\ last.report[1].l1_hits + last.report[1].l2_hits = 3

\* The last call was get(k), its L2 read not faulting, after a set(k, None,
\* ...) whose entry is, at the instant of the get, unexpired in L1 (and not
\* evicted from it) or unexpired in L2.
NoneInL1 ==
    /\ ~SetOf(last.key).evicted
    /\ (SetOf(last.key).tm = <<>> \/ ~Elapsed(SetOf(last.key).tm))

NoneInL2 ==
    /\ SetOf(last.key).l2ok
    /\ (SetOf(last.key).td = <<>> \/ last.t < SetOf(last.key).t + SetOf(last.key).td[1])

GetOfNone ==
    /\ last.op = "get" /\ last.fault = "" /\ hist[last.key] # <<>>
    /\ SetOf(last.key).v = None /\ ~SetOf(last.key).other

\* C17: a key whose stored value is None is served from the cache: get(k)
\* after set(k, None, ttl_memory, ttl_disk) is counted as a hit (l1_hits or
\* l2_hits), never as a miss, for as long as the entry is unexpired in at
\* least one tier.
C17_NoneIsServed ==
    (GetOfNone /\ (NoneInL1 \/ NoneInL2))
    => /\ last.outcome \in {"l1_hit", "l2_hit"}
       /\ last.d.misses = 0 /\ last.d.l1_hits + last.d.l2_hits = 1

\* C17 holds while the entry is unexpired in L1 and not evicted from it.
C17_NoneServedFromL1 ==
    (GetOfNone /\ NoneInL1) => last.outcome = "l1_hit" /\ last.d.misses = 0

\* C18: after any sequence of operations, get_stats() reports total_requests
\* = l1_hits + l2_hits + misses and hit_rate_percent = (l1_hits + l2_hits) /
\* total_requests * 100 rounded to 2 decimals, that is the number of
\* hundredths nearest to the exact rate (the even one when two are equally
\* near), and hit_rate_percent = 0.0 when total_requests = 0.
C18_StatsArithmetic ==
    (last.op = "get_stats" /\ last.exc = "")
    => LET r == last.report[1]
           h == stats.l1_hits + stats.l2_hits
           n == stats.l1_hits + stats.l2_hits + stats.misses
           off == r.hit_rate_percent * n - h * 10000
       IN /\ r.total_requests = n
          /\ r.l1_hits + r.l2_hits + r.misses = r.total_requests
          /\ n = 0 => r.hit_rate_percent = 0
          /\ n > 0 => /\ 2 * off <= n /\ 2 * off >= -n
                      /\ (2 * off = n \/ 2 * off = -n) => r.hit_rate_percent % 2 = 0

\* 2 hits in 3 requests: 66.67 percent.
C18_Witness ==
    /\ last.op = "get_stats" /\ stats.l1_hits + stats.l2_hits = 2 /\ stats.misses = 1
    /\ last.report[1].hit_rate_percent = 6667 /\ last.report[1].total_requests = 3

\* The number of tiers that hold k: L1 holds it when it is a key of the
\* dict, L2 when it has a row for it that has not expired.
InL2(k) == k \in DOMAIN l2 /\ L2Live(l2[k], now)
TiersHolding(k) == (IF DictHas(l1, k) THEN 1 ELSE 0) + (IF InL2(k) THEN 1 ELSE 0)

\* C19: invalidate(exact_key=k) returns the number of tiers in which a
\* deletion of k actually occurred: 0 when k is in neither tier, 1 when it is
\* in exactly one of L1 and L2, 2 when it is in both.
C19_InvalidateCountsTiers ==
    [][\A k \in Keys :
         (faults = 0 /\ faults' = 0 /\ InvalidateExact(k))
         => /\ last'.count = TiersHolding(k)
            /\ ~DictHas(l1', k) /\ k \notin DOMAIN l2']_vars

\* C19 holds of every key other than the empty string whose L2 row, if it
\* has one, is live and does not hold None.
C19_NonEmptyKeyNotNone ==
    [][\A k \in Keys \ {<<>>} :
         ( /\ faults = 0 /\ faults' = 0 /\ InvalidateExact(k)
           /\ k \in DOMAIN l2 => InL2(k) /\ l2[k].v # None )
         => /\ last'.count = TiersHolding(k)
            /\ ~DictHas(l1', k) /\ k \notin DOMAIN l2']_vars

\* C20: the counters l1_hits, l2_hits, misses, sets and evictions never
\* decrease: no operation, clear, invalidate, cleanup and close included,
\* lowers or resets any of them.
C20_CountersNeverDecrease ==
    [][\A n \in DOMAIN stats : stats'[n] >= stats[n]]_vars

\* A clear has been called on a cache whose counters had moved.
C20_Witness ==
    /\ last.op = "clear" /\ last.exc = ""
    /\ stats.sets > 0 /\ stats.l1_hits + stats.l2_hits + stats.misses > 0
    /\ l1 = <<>> /\ DOMAIN l2 = {}

\* The last call was get(k), the call before it was clear(), which returned,
\* and k had been set before that clear.
GetRightAfterClear ==
    /\ last.op = "get" /\ last.prev.op = "clear" /\ faults = 0
    /\ hist[last.key] # <<>>

\* C21: after clear() has returned, L1 and L2 hold no entries, and get(k)
\* returns absent for every key k that was set before the clear.
C21_ClearEmptiesBothTiers ==
    /\ (last.op = "clear" /\ last.exc = "")
       => /\ l1 = <<>> /\ DOMAIN l1_ttl = {} /\ DOMAIN l2 = {}
          /\ \A k \in Keys : Lookup(k) = None
    /\ GetRightAfterClear
       => last.ret = None /\ last.outcome = "miss" /\ last.exc = ""

C21_Witness ==
    /\ GetRightAfterClear /\ SetOf(last.key).v # None /\ last.prev.t = SetOf(last.key).t
    /\ last.outcome = "miss"

\* The key of L1 that became a key of L1 before every other key L1 holds, by
\* the number of the call that inserted it.
InsertedAt(k) == hist[k][1].ins
OldestInserted ==
    CHOOSE k \in DictKeys(l1) : \A j \in DictKeys(l1) : InsertedAt(k) <= InsertedAt(j)

ExpiryPassed(k) == k \in DOMAIN l1_ttl /\ l1_ttl[k] # <<>> /\ l1_ttl[k][1] < now
Swept == SelectSeq(l1, LAMBDA e : ~ExpiryPassed(e.k))

\* C23: the L1 sweep, run at the start of every get and by cleanup, removes
\* exactly the L1 entries whose expiry has passed, leaves every entry with no
\* expiry or a future expiry in place with its value, and adds to evictions
\* exactly the number of entries it removed.  (After the sweep, get changes
\* L1 only by promoting the key it was asked for.)
C23_SweepRemovesExactlyExpired ==
    [][/\ Cleanup
          => /\ l1' = Swept
             /\ l1_ttl' = [k \in DictKeys(Swept) |-> l1_ttl[k]]
             /\ stats'.evictions = stats.evictions + Len(l1) - Len(Swept)
       /\ \A key \in Keys :
            Get(key)
            => /\ SelectSeq(l1', LAMBDA e : e.k # key) = SelectSeq(Swept, LAMBDA e : e.k # key)
               /\ DictHas(Swept, key) => l1' = Swept
               /\ \A k \in DictKeys(Swept) \ {key} : l1_ttl'[k] = l1_ttl[k]
               /\ stats'.evictions = stats.evictions + Len(l1) - Len(Swept)]_vars

\* A cleanup has removed one entry, whose expiry had passed, and kept
\* another, whose expiry is still to come.
C23_Witness ==
    /\ last.op = "cleanup" /\ last.d.evictions = 1 /\ Len(l1) = 1
    /\ l1_ttl[l1[1].k] # <<>> /\ l1_ttl[l1[1].k][1] >= now
    /\ \E k \in Keys \ {l1[1].k} :
          hist[k] # <<>> /\ hist[k][1].tm # <<>> /\ hist[k][1].t + hist[k][1].tm[1] < now

\* A get has promoted k from L2 into L1 and, since, k has not been evicted by
\* a set at capacity, invalidated, cleared or set again.
StillPromoted(k) == hist[k] # <<>> /\ hist[k][1].promoted # <<>>

\* C24: an entry promoted from L2 into L1 by get has no L1 expiry: every
\* later get(k), at any later time and even after the entry's disk TTL has
\* elapsed, returns the promoted value as an L1 hit, until k is removed by
\* capacity eviction, invalidate or clear, or overwritten by set.
C24_PromotedEntryStays ==
    [][\A k \in Keys :
         (GetCall(k) /\ StillPromoted(k))
         => /\ last'.ret = hist[k][1].promoted[1]
            /\ last'.outcome = "l1_hit" /\ last'.exc = "" /\ last'.d.l1_hits = 1
            /\ l1_ttl'[k] = NoTTL]_vars

\* A get is served from L1 the value an earlier get promoted, after the disk
\* TTL of the set that stored it has elapsed.
C24_Witness ==
    /\ last.op = "get" /\ last.outcome = "l1_hit" /\ StillPromoted(last.key)
    /\ SetOf(last.key).td # <<>> /\ Elapsed(SetOf(last.key).td)
    /\ last.ret = SetOf(last.key).v

\* The step is a call of set(key, ...).
SetStep(key) == calls' = calls + 1 /\ last'.op = "set" /\ last'.key = key

\* C25: set(k, ...) when L1 is at capacity evicts exactly one entry, the
\* oldest-inserted, and adds 1 to evictions even when k is already a key of
\* L1; so overwriting an existing key can remove a different key and leave
\* l1_size below the capacity.
C25_OverwriteAtCapacityEvicts ==
    [][\A key \in Keys :
         (SetStep(key) /\ DictHas(l1, key) /\ Len(l1) >= l1_max_size)
         => /\ last'.d.evictions = 1 /\ last'.exc = ""
            /\ DictKeys(l1') = (DictKeys(l1) \ {OldestInserted}) \cup {key}
            /\ DictVal(l1', key) = hist'[key][1].v
            /\ OldestInserted # key
               => ~DictHas(l1', OldestInserted) /\ Len(l1') = Len(l1) - 1]_vars

\* A set has overwritten a key that L1 held, L1 being full, and has evicted
\* the other key: L1 is left with one entry, below its capacity of 2.
C25_Witness ==
    /\ last.op = "set" /\ last.d.evictions = 1 /\ l1_max_size = 2
    /\ InsertedAt(last.key) < calls
    /\ Len(l1) = 1 /\ l1[1].k = last.key
    /\ \E k \in Keys \ {last.key} : hist[k] # <<>> /\ hist[k][1].evicted

\* C26: under concurrent get and set calls (cleanup runs the same sweep as
\* get), no call fails with an internal error: neither the sweep nor the
\* capacity eviction tries to remove an L1 entry, or its expiry record, that
\* another caller has already removed or has not yet fully written.
C26_NoInternalError == \A t \in Threads : th[t].exc = ""

\* C27: get(k) returns either absent or the value given to the most recent
\* set(k, ...); it never returns a value from an earlier set of k, in any
\* sequence of set, get, invalidate and cleanup calls, those in which an L2
\* write or an L2 delete fails and is absorbed included.
C27_GetNeverStale ==
    last.op = "get"
    => IF hist[last.key] = <<>> THEN last.ret = None
       ELSE last.ret \in {None, SetOf(last.key).v}

\* C27 holds of the keys whose most recent set reached L2.
C27_FreshWhenLastWriteStored ==
    (last.op = "get" /\ hist[last.key] # <<>> /\ SetOf(last.key).l2ok)
    => last.ret \in {None, SetOf(last.key).v}

\* The instant is past both TTLs of the most recent set(k, v, m, d), which
\* gave both and stored a payload, and only gets have been called on k since.
PastBothTTLs(k, t) ==
    /\ hist[k] # <<>> /\ ~hist[k][1].other /\ hist[k][1].v # None
    /\ hist[k][1].tm # <<>> /\ hist[k][1].td # <<>>
    /\ t > hist[k][1].t + hist[k][1].tm[1] /\ t > hist[k][1].t + hist[k][1].td[1]

C29_OneRequestPerGet ==
    /\ last.exc = ""
       => IF last.op = "get"
          THEN /\ last.d.l1_hits + last.d.l2_hits + last.d.misses = 1
               /\ \A n \in {"l1_hits", "l2_hits", "misses"} : last.d[n] \in {0, 1}
               /\ last.d.sets = 0 /\ last.d.evictions >= 0
               /\ last.d[IF last.outcome = "l1_hit" THEN "l1_hits"
                         ELSE IF last.outcome = "l2_hit" THEN "l2_hits" ELSE "misses"] = 1
          ELSE last.d.l1_hits = 0 /\ last.d.l2_hits = 0 /\ last.d.misses = 0
    /\ last.op = "get" => last.exc = ""
    /\ total_requests(stats) = last.ngets

\* Of three calls two were gets, an L2 hit whose sweep evicted the expired
\* L1 entry and then an L1 hit: two requests have been counted.
C29_Witness ==
    /\ last.op = "get" /\ calls = 3 /\ last.ngets = 2
    /\ stats.l2_hits = 1 /\ stats.l1_hits = 1 /\ stats.evictions = 1
    /\ total_requests(stats) = 2

\* C30: after every public operation, calls being made one at a time, the
\* keys of the L1 value map are the keys of the L1 expiry map: no value is
\* left without an expiry record and no expiry record without a value.
C30_L1MapsHaveTheSameKeys == DictKeys(l1) = DOMAIN l1_ttl

\* An invalidate has removed one key from both tiers and another key is
\* still in L1, with its expiry record.
C30_Witness ==
    /\ last.op = "invalidate" /\ last.count = 2
    /\ Len(l1) = 1 /\ DOMAIN l1_ttl = {l1[1].k} /\ last.key \notin DOMAIN l1_ttl

====
